---- MODULE Spec2Model ----
(***************************************************************************)
(* A model of tinyAPI's data store provider (base/data_store/provider.py): *)
(* the DataStoreMySQL session object, its query/create/delete executor,    *)
(* the memcache directive, and DataStoreProvider.get_data_store_handle     *)
(* with its thread-local binding and process-wide persistent map.          *)
(***************************************************************************)
EXTENDS Integers, FiniteSets, Sequences, TLC

(* ----- bounds of the model --------------------------------------------- *)

\* session objects one process may construct
MaxSessions == 2
\* physical connections the driver may open
MaxHandles == 2
\* cap of the requests counter of a session
MaxRequests == 2
\* the clock stops advancing here
MaxNow == 297
\* fields of the data a create call is given
MaxFields == 2

(* ----- program constants ----------------------------------------------- *)

\* self._ping_interval = 300
PingInterval == 300
\* the "- 3" of the staleness test in connect() and ping()
PingSlack == 3

(* ----- value universes -------------------------------------------------- *)

None == "None"
NoSession == 0
NoHandle == 0
NoTtl == -1

Sids == 1..MaxSessions
Handles == 1..MaxHandles

\* pid of the process that starts the program, and of the child it may fork
ParentPid == 1
ChildPid == 2
Pids == {ParentPid, ChildPid}

\* execution contexts: two threads of the parent, the single thread of a
\* forked child
Ctxs == {1, 2, 3}
ChildCtx == 3
ProcOf(c) == IF c = ChildCtx THEN ChildPid ELSE ParentPid

\* 'mysql connection data' of the configuration: only 'local' is configured
connection_data == {"local"}
\* ConfigManager.value('data store')
data_store == "mysql"

ConnNames == {"local", "other"}
DbNames == {"db1", "db2"}
Keys == {"k1"}
Ttls == {60}
TickSteps == {296, 297}

\* result sets a select may produce ([] is the normalised empty result)
ResultSets == {<<>>, <<"row">>}
NoResult == <<"None">>
WriteResult == <<"True">>

\* what cursor.execute may do: succeed, or raise a driver error (class, errno)
DriverOk == <<"ok", 0>>
DriverErrors ==
    { <<"IntegrityError", 1048>>, <<"IntegrityError", 1062>>,
      <<"IntegrityError", 1452>>, <<"IntegrityError", 1451>>,
      <<"InternalError", 1271>>, <<"InternalError", 1213>>,
      <<"ProgrammingError", 1064>>, <<"OperationalError", 2013>> }
DriverOutcomes == {DriverOk} \cup DriverErrors

(* ----- the statement create() builds ------------------------------------- *)

\* Field names and values are strings, kept as the sequences of the pieces
\* the regular expressions of create() tell apart.
FieldKeys == { <<"a">>, <<"_binary ", "b">>, <<"c", "_binary ", "d">> }
FieldValues ==
    { <<"v">>, <<"current_timestamp">>, <<"current_timestamp", "(6)">>,
      <<"current_date">>, <<"current_date", "s">> }
Fields == [key : FieldKeys, value : FieldValues]

\* the dicts of at most MaxFields items, as the sequences of their items
FieldMaps ==
    { d \in UNION { [1..n -> Fields] : n \in 0..MaxFields } :
        \A i, j \in DOMAIN d : i # j => d[i].key # d[j].key }

\* re.sub('_binary ', '', key)
strip_binary(key) == SelectSeq(key, LAMBDA piece : piece # "_binary ")

\* re.match('current_timestamp', str_value) is not None or
\* str_value == 'current_date'
is_literal(value) ==
    Head(value) = "current_timestamp" \/ value = <<"current_date">>

get_binds_all_bound(data) == [i \in 1..Len(data) |-> <<"%s">>]

\* DataStoreMySQL.__get_binds
get_binds(data) ==
    [i \in 1..Len(data) |->
        IF is_literal(data[i].value)
        THEN data[i].value
        ELSE IF Head(data[i].key) = "_binary "
             THEN <<"_binary ", "%s">>
             ELSE <<"%s">>]

\* DataStoreMySQL.__get_values
get_values(data) ==
    SelectSeq([i \in 1..Len(data) |-> data[i].value],
              LAMBDA value : ~is_literal(value))

\* create(), lines 344-356: the column list and the placeholder list of the
\* insert statement, and the values bound to it
create_statement(data) ==
    [ data  |-> data,
      keys  |-> [i \in 1..Len(data) |-> strip_binary(data[i].key)],
      binds |-> get_binds(data),
      vals  |-> get_values(data) ]

(* ----- the session object (DataStoreMySQL) ------------------------------ *)

DataStoreMySQL_always_persistent(t, cli) ==
    [ connection_name |-> None, db_name |-> None, memcache |-> FALSE,
      memcache_key |-> None, memcache_ttl |-> NoTtl, inactive_since |-> t,
      requests |-> 0, hits |-> 0, persistent |-> TRUE, mysql |-> NoHandle,
      rdbms_mysql |-> "unset", cursor |-> NoHandle ]

\* __DataStoreBase.__init__ and DataStoreMySQL.__init__.  rdbms_mysql is the
\* attribute _RDBMSBase__mysql (written by RDBMSBase.select_db); mysql is
\* _DataStoreMySQL__mysql (read and written by DataStoreMySQL's methods).
DataStoreMySQL(t, cli) ==
    [ connection_name |-> None,
      db_name         |-> None,
      memcache        |-> FALSE,
      memcache_key    |-> None,
      memcache_ttl    |-> NoTtl,
      inactive_since  |-> t,
      requests        |-> 0,
      hits            |-> 0,
      persistent      |-> ~cli,
      mysql           |-> NoHandle,
      rdbms_mysql     |-> "unset",
      cursor          |-> NoHandle ]

\* RDBMSBase.select_db: inside class RDBMSBase the name self.__mysql is the
\* attribute _RDBMSBase__mysql, not the handle DataStoreMySQL keeps.
select_db(s, connection, db) ==
    LET s1 == IF s.connection_name # connection \/ s.db_name # db
              THEN [s EXCEPT !.rdbms_mysql = None]
              ELSE s
    IN [s1 EXCEPT !.connection_name = connection, !.db_name = db]

\* RDBMSBase.set_persistent
set_persistent(s, persistent) == [s EXCEPT !.persistent = persistent]

\* RDBMSBase.memcache
memcache(s, key, ttl) == [s EXCEPT !.memcache_key = key, !.memcache_ttl = ttl]

reset_memcache_keeps(s) == s

\* RDBMSBase._reset_memcache
reset_memcache(s) == [s EXCEPT !.memcache_key = None, !.memcache_ttl = NoTtl]

\* whether memcache_retrieve / memcache_store / memcache_purge go to the cache
\* client at all (they return early otherwise)
memcache_active(s, unit_test) == s.memcache_key # None /\ ~unit_test

\* the lazy "self._memcache = Memcache()" of the three memcache_* methods
memcache_attach(s, unit_test) ==
    IF memcache_active(s, unit_test) THEN [s EXCEPT !.memcache = TRUE] ELSE s

memcache_retrieve_misses(s, unit_test, store) == NoResult

\* RDBMSBase.memcache_retrieve: the cached value, or NoResult
memcache_retrieve(s, unit_test, store) ==
    IF memcache_active(s, unit_test) THEN store[s.memcache_key] ELSE NoResult

\* RDBMSBase.memcache_store: the cache after storing data
memcache_store(s, unit_test, store, data) ==
    IF memcache_active(s, unit_test)
    THEN [store EXCEPT ![s.memcache_key] = data]
    ELSE store

\* RDBMSBase.memcache_purge: the cache after the purge
memcache_purge(s, unit_test, store) ==
    IF memcache_active(s, unit_test)
    THEN [store EXCEPT ![s.memcache_key] = NoResult]
    ELSE store

\* DataStoreMySQL.__close_cursor
close_cursor(s) == [s EXCEPT !.cursor = NoHandle]

delete_finish_reset_first(s, unit_test, store) ==
    LET s1 == reset_memcache(s) IN
    [ sess   |-> close_cursor(memcache_attach(s1, unit_test)),
      cache  |-> memcache_purge(s1, unit_test, store),
      purged |-> memcache_active(s1, unit_test) ]

\* delete(), lines 411-414, in their order: memcache_purge() under the
\* armed key, __close_cursor(), _reset_memcache().  The result: the session
\* and the cache afterwards, and whether the cache client was asked to purge
delete_finish(s, unit_test, store) ==
    LET s1 == memcache_attach(s, unit_test)
        s2 == close_cursor(s1)
        s3 == reset_memcache(s2)
    IN [ sess   |-> s3,
         cache  |-> memcache_purge(s, unit_test, store),
         purged |-> memcache_active(s, unit_test) ]

\* DataStoreMySQL.__get_cursor
get_cursor(s) == IF s.cursor # NoHandle THEN s ELSE [s EXCEPT !.cursor = s.mysql]

close_drops_persistent(s) ==
    [s EXCEPT !.cursor = NoHandle, !.mysql = NoHandle, !.memcache = FALSE]

close_keeps_handle(s) == [s EXCEPT !.cursor = NoHandle]

\* DataStoreMySQL.close: the session afterwards
close(s) ==
    LET s1 == close_cursor(s)
        s2 == IF s1.mysql # NoHandle /\ ~s1.persistent
              THEN [s1 EXCEPT !.mysql = NoHandle]
              ELSE s1
    IN IF s2.memcache /\ ~s2.persistent
       THEN [s2 EXCEPT !.memcache = FALSE]
       ELSE s2

\* DataStoreMySQL.close: the handle it closes (self.__mysql.close()), if any
close_released(s) ==
    IF s.mysql # NoHandle /\ ~s.persistent THEN s.mysql ELSE NoHandle

stale_strict(s, t) == t - s.inactive_since > PingInterval - PingSlack

\* the staleness test of connect() and ping()
stale(s, t) == t - s.inactive_since >= PingInterval - PingSlack

connect_hits_always(s, t, h) ==
    LET s1 == IF s.persistent THEN [s EXCEPT !.requests = @ + 1] ELSE s
        ret(x, e, o, p) == [sess |-> x, exc |-> e, opened |-> o, pinged |-> p]
    IN IF s1.mysql # NoHandle
       THEN IF s1.persistent /\ stale(s1, t)
            THEN ret([s1 EXCEPT !.inactive_since = t], None, FALSE, TRUE)
            ELSE ret([s1 EXCEPT !.hits = @ + 1], None, FALSE, FALSE)
       ELSE IF s1.connection_name = None
            THEN ret(s1, "DataStoreException", FALSE, FALSE)
       ELSE IF s1.connection_name \notin connection_data
            THEN ret(s1, "DataStoreException", FALSE, FALSE)
       ELSE IF s1.db_name = None
            THEN ret(s1, "DataStoreException", FALSE, FALSE)
       ELSE ret([s1 EXCEPT !.mysql = h, !.inactive_since = t],
                None, TRUE, FALSE)

connect_unchecked(s, t, h) ==
    LET s1 == IF s.persistent THEN [s EXCEPT !.requests = @ + 1] ELSE s
        ret(x, e, o, p) == [sess |-> x, exc |-> e, opened |-> o, pinged |-> p]
    IN IF s1.mysql # NoHandle
       THEN IF s1.persistent
            THEN IF stale(s1, t)
                 THEN ret([s1 EXCEPT !.inactive_since = t], None, FALSE, TRUE)
                 ELSE ret([s1 EXCEPT !.hits = @ + 1], None, FALSE, FALSE)
            ELSE ret(s1, None, FALSE, FALSE)
       ELSE IF s1.connection_name = None
            THEN ret(s1, "DataStoreException", FALSE, FALSE)
       ELSE IF s1.connection_name \notin connection_data
            THEN ret(s1, "DataStoreException", FALSE, FALSE)
       ELSE ret([s1 EXCEPT !.mysql = h, !.inactive_since = t],
                None, TRUE, FALSE)

\* DataStoreMySQL.connect.  h is the handle pymysql.connect would return.
\* The result: the session afterwards, the exception raised (None if it
\* returns), whether a connection was opened and whether a ping was sent.
connect(s, t, h) ==
    LET s1 == IF s.persistent THEN [s EXCEPT !.requests = @ + 1] ELSE s
        ret(x, e, o, p) == [sess |-> x, exc |-> e, opened |-> o, pinged |-> p]
    IN IF s1.mysql # NoHandle
       THEN IF s1.persistent
            THEN IF stale(s1, t)
                 THEN ret([s1 EXCEPT !.inactive_since = t], None, FALSE, TRUE)
                 ELSE ret([s1 EXCEPT !.hits = @ + 1], None, FALSE, FALSE)
            ELSE ret(s1, None, FALSE, FALSE)
       ELSE IF s1.connection_name = None
            THEN ret(s1, "DataStoreException", FALSE, FALSE)
       ELSE IF s1.connection_name \notin connection_data
            THEN ret(s1, "DataStoreException", FALSE, FALSE)
       ELSE IF s1.db_name = None
            THEN ret(s1, "DataStoreException", FALSE, FALSE)
       ELSE ret([s1 EXCEPT !.mysql = h, !.inactive_since = t],
                None, TRUE, FALSE)

\* the is_select test of query(): '^\(?select\s' or '^show ', ignoring case
SqlKinds == {"select", "show", "update"}
is_select(sql) == sql \in {"select", "show"}

query_error_no_collation(err) ==
    IF err[1] \in {"IntegrityError", "InternalError"}
    THEN IF err[2] = 1048 THEN "ColumnCannotBeNullException"
         ELSE IF err[2] = 1062 THEN "DataStoreDuplicateKeyException"
         ELSE IF err[2] = 1452 THEN "DataStoreForeignKeyException"
         ELSE err[1]
    ELSE IF err[1] = "ProgrammingError" THEN "DataStoreException"
    ELSE err[1]

\* the except clauses of query(): the exception the caller sees
query_error(err) ==
    IF err[1] \in {"IntegrityError", "InternalError"}
    THEN IF err[2] = 1048 THEN "ColumnCannotBeNullException"
         ELSE IF err[2] = 1062 THEN "DataStoreDuplicateKeyException"
         ELSE IF err[2] = 1271 THEN "IllegalMixOfCollationsException"
         ELSE IF err[2] = 1452 THEN "DataStoreForeignKeyException"
         ELSE err[1]
    ELSE IF err[1] = "ProgrammingError" THEN "DataStoreException"
    ELSE err[1]

\* the except clauses of create()
create_error(err) ==
    IF err[1] = "IntegrityError"
    THEN IF err[2] = 1048 THEN "ColumnCannotBeNullException"
         ELSE IF err[2] = 1062 THEN "DataStoreDuplicateKeyException"
         ELSE IF err[2] = 1452 THEN "DataStoreForeignKeyException"
         ELSE err[1]
    ELSE IF err[1] = "ProgrammingError" THEN "DataStoreException"
    ELSE err[1]

(* ----- state -------------------------------------------------------------- *)

VARIABLES
    env_unit_test,      \* Context.env_unit_test()
    env_cli,            \* Context.env_cli()
    now,                \* time.time()
    heap,               \* per process: the session objects it has constructed
    persistent_map,     \* per process: DataStoreProvider.__persistent
    thread_local_data,  \* per context: _thread_local_data
    dsh,                \* per context: the session its caller holds
    pc,                 \* per context: where it is inside a call
    call,               \* per context: the call in progress
    handles,            \* the driver's connections: unused, open or closed
    cache,              \* the memcached servers: key -> cached result set
    forked,             \* whether the parent has forked the child
    last                \* the call that completed last

vars == << env_unit_test, env_cli, now, heap, persistent_map,
           thread_local_data, dsh, pc, call, handles, cache, forked, last >>

NoArg == [connection |-> None, db |-> None, persistent |-> FALSE,
          sql |-> None, ignore |-> FALSE]

\* what is remembered of a completed call: the operation, the context that
\* made it, the session it was made on, the exception it raised (None if it
\* returned), its result, and what it did on the way
NoCall ==
    [ op |-> "none", ctx |-> 0, sid |-> NoSession, exc |-> None,
      result |-> NoResult,
      armed |-> FALSE,      \* a cache directive was armed when it started
      consulted |-> FALSE,  \* it asked the cache client for the key
      stored |-> FALSE,     \* it stored its result in the cache
      purged |-> FALSE,     \* it purged the key from the cache
      connected |-> FALSE,  \* it called connect()
      opened |-> FALSE,     \* connect() opened a physical connection
      pinged |-> FALSE,     \* connect() sent a ping
      executed |-> FALSE,   \* it ran a statement on the physical handle
      closed_cursor |-> FALSE,  \* close() closed an open cursor
      closed_handle |-> FALSE,  \* close() closed the physical handle
      detached |-> FALSE,   \* close() closed and dropped the cache client
      fresh |-> FALSE,      \* get_data_store_handle constructed the session
      bound |-> NoSession,  \* the session bound to the name before the call
      persistent |-> FALSE  \* the persistent argument of the call
    ]

\* a call in progress: what it will be remembered as, and its arguments
NoInFlight == [l |-> NoCall, arg |-> NoArg]

EmptyEntry == [present |-> FALSE, slots |-> [p \in Pids |-> NoSession]]

Live(c) == c # ChildCtx \/ forked

Init ==
    /\ env_unit_test \in BOOLEAN
    /\ env_cli = FALSE
    /\ now = 0
    /\ heap = [p \in Pids |-> <<>>]
    /\ persistent_map = [p \in Pids |-> [n \in ConnNames |-> EmptyEntry]]
    /\ thread_local_data = [c \in Ctxs |-> [n \in ConnNames |-> NoSession]]
    /\ dsh = [c \in Ctxs |-> NoSession]
    /\ pc = [c \in Ctxs |-> "idle"]
    /\ call = [c \in Ctxs |-> NoInFlight]
    /\ handles = [h \in Handles |-> "unused"]
    /\ cache = [k \in Keys |-> NoResult]
    /\ forked = FALSE
    /\ last = NoCall

(* ----- helpers of the actions ------------------------------------------- *)

\* the session object sid of the process of context c
Obj(c, sid) == heap[ProcOf(c)][sid]

\* the heap after session sid of c's process becomes s (constructing it if new)
Put(c, sid, s) ==
    [heap EXCEPT ![ProcOf(c)] = (sid :> s) @@ heap[ProcOf(c)]]

\* the id the next constructed session object of c's process gets
NewSid(c) == Cardinality(DOMAIN heap[ProcOf(c)]) + 1

CanConstruct(c) == NewSid(c) \in Sids

\* the handle the next pymysql.connect returns
NewHandle ==
    IF \E h \in Handles : handles[h] = "unused"
    THEN CHOOSE h \in Handles :
            /\ handles[h] = "unused"
            /\ \A g \in Handles : handles[g] = "unused" => h <= g
    ELSE NoHandle

\* connect() may be called on s: its counter and the driver have room
CanConnect(s) ==
    /\ s.persistent => s.requests < MaxRequests
    /\ s.mysql = NoHandle => NewHandle # NoHandle

\* the driver's connections after connect() returned r on session s
Opened(r) ==
    IF r.opened
    THEN [handles EXCEPT ![r.sess.mysql] = "open"]
    ELSE handles

\* the driver's connections after close() on session s
Released(s) ==
    IF close_released(s) # NoHandle
    THEN [handles EXCEPT ![close_released(s)] = "closed"]
    ELSE handles

\* a call of c completes: it becomes the last call
Done(c, l) ==
    /\ last' = l
    /\ pc' = [pc EXCEPT ![c] = "idle"]
    /\ call' = [call EXCEPT ![c] = NoInFlight]

Idle(c) == Live(c) /\ pc[c] = "idle"

Holding(c) == Idle(c) /\ dsh[c] # NoSession

(* ----- DataStoreProvider.get_data_store_handle --------------------------- *)

bound_session_unbound(tld, connection) == NoSession

\* hasattr / getattr(_thread_local_data, connection): the session bound to
\* the name in this context, NoSession when there is none
bound_session(tld, connection) == tld[connection]

\* setattr(_thread_local_data, connection, dsh)
bind_session(tld, connection, sid) == [tld EXCEPT ![connection] = sid]

\* "self.pid not in self.__persistent[connection]"
slot_empty(entry, pid) == entry.slots[pid] = NoSession

\* lines 645-652: the hit-ratio report (no state) and dsh.select_db; the
\* call l with arguments a returns session sid, whose object before
\* select_db is s
GetHandleReturn(c, l, a, sid, s, tld, isfresh) ==
    /\ heap' = Put(c, sid, select_db(s, a.connection, a.db))
    /\ thread_local_data' = [thread_local_data EXCEPT ![c] = tld]
    /\ dsh' = [dsh EXCEPT ![c] = sid]
    /\ Done(c, [l EXCEPT !.sid = sid, !.fresh = isfresh,
                         !.bound = bound_session(thread_local_data[c],
                                                 a.connection)])

\* lines 631-643 up to the construction of a persistent session
Lookup(c, l, a) ==
    LET p     == ProcOf(c)
        tld   == thread_local_data[c]
        found == bound_session(tld, a.connection)
        entry == persistent_map[p][a.connection]
    IN
    IF found # NoSession
    THEN \* line 643
         GetHandleReturn(c, l, a, found, Obj(c, found), tld, FALSE)
    ELSE IF a.persistent
    THEN IF slot_empty(entry, p)
         THEN \* line 633 found no session for this pid
              /\ CanConstruct(c)
              /\ pc' = [pc EXCEPT ![c] = "gh_create"]
              /\ call' = [call EXCEPT ![c] = [l |-> l, arg |-> a]]
              /\ UNCHANGED << heap, thread_local_data, dsh, last >>
         ELSE \* lines 637-638
              GetHandleReturn(c, l, a, entry.slots[p], Obj(c, entry.slots[p]),
                  bind_session(tld, a.connection, entry.slots[p]), FALSE)
    ELSE \* lines 640-641
         /\ CanConstruct(c)
         /\ GetHandleReturn(c, l, a, NewSid(c),
                set_persistent(DataStoreMySQL(now, env_cli), FALSE),
                bind_session(tld, a.connection, NewSid(c)), TRUE)

\* lines 627-628: the backend test and "connection not in self.__persistent".
\* When the name is in the map (it never leaves it) the call goes on to
\* lines 631-643 in the same step.
GetHandleBegin(c, connection, db, persistent) ==
    LET l == [NoCall EXCEPT !.op = "get_data_store_handle", !.ctx = c,
                            !.persistent = persistent]
        a == [NoArg EXCEPT !.connection = connection, !.db = db,
                           !.persistent = persistent]
    IN
    /\ Idle(c)
    /\ data_store = "mysql"
    /\ IF persistent_map[ProcOf(c)][connection].present
       THEN Lookup(c, l, a)
       ELSE /\ pc' = [pc EXCEPT ![c] = "gh_init"]
            /\ call' = [call EXCEPT ![c] = [l |-> l, arg |-> a]]
            /\ UNCHANGED << heap, thread_local_data, dsh, last >>
    /\ UNCHANGED << env_unit_test, env_cli, now, persistent_map, handles,
                    cache, forked >>

\* line 629: self.__persistent[connection] = {}
GetHandleInit(c) ==
    /\ Live(c)
    /\ pc[c] = "gh_init"
    /\ persistent_map' =
          [persistent_map EXCEPT ![ProcOf(c)][call[c].arg.connection] =
              [EmptyEntry EXCEPT !.present = TRUE]]
    /\ pc' = [pc EXCEPT ![c] = "gh_lookup"]
    /\ UNCHANGED << env_unit_test, env_cli, now, heap, thread_local_data, dsh,
                    call, handles, cache, forked, last >>

\* lines 631-643 after line 629
GetHandleLookup(c) ==
    /\ Live(c)
    /\ pc[c] = "gh_lookup"
    /\ Lookup(c, call[c].l, call[c].arg)
    /\ UNCHANGED << env_unit_test, env_cli, now, persistent_map, handles,
                    cache, forked >>

\* lines 634-635: construct the session and store it under the pid
GetHandleCreate(c) ==
    LET a == call[c].arg
        p == ProcOf(c)
    IN
    /\ Live(c)
    /\ pc[c] = "gh_create"
    /\ CanConstruct(c)
    /\ heap' = Put(c, NewSid(c), DataStoreMySQL(now, env_cli))
    /\ persistent_map' =
          [persistent_map EXCEPT ![p][a.connection].slots[p] = NewSid(c)]
    /\ pc' = [pc EXCEPT ![c] = "gh_read"]
    /\ call' = [call EXCEPT ![c].l.sid = NewSid(c)]
    /\ UNCHANGED << env_unit_test, env_cli, now, thread_local_data, dsh,
                    handles, cache, forked, last >>

\* lines 637-638 after the construction: read the slot back and bind it.
\* The read raises KeyError when another thread has replaced the entry of
\* the connection by an empty one meanwhile.
GetHandleRead(c) ==
    LET a     == call[c].arg
        p     == ProcOf(c)
        tld   == thread_local_data[c]
        entry == persistent_map[p][a.connection]
    IN
    /\ Live(c)
    /\ pc[c] = "gh_read"
    /\ IF slot_empty(entry, p)
       THEN /\ Done(c, [call[c].l EXCEPT !.sid = NoSession,
                                         !.exc = "KeyError"])
            /\ UNCHANGED << heap, thread_local_data, dsh >>
       ELSE GetHandleReturn(c, call[c].l, a, entry.slots[p],
                Obj(c, entry.slots[p]),
                bind_session(tld, a.connection, entry.slots[p]),
                entry.slots[p] = call[c].l.sid)
    /\ UNCHANGED << env_unit_test, env_cli, now, persistent_map, handles,
                    cache, forked >>

\* os.fork() called by thread c of the parent: the child's memory is a copy
\* of the parent's, its only thread a copy of c; open sockets are shared
Fork(c) ==
    /\ c # ChildCtx
    /\ ~forked
    /\ Idle(c)
    /\ forked' = TRUE
    /\ heap' = [heap EXCEPT ![ChildPid] = heap[ParentPid]]
    /\ persistent_map' =
          [persistent_map EXCEPT ![ChildPid] = persistent_map[ParentPid]]
    /\ thread_local_data' =
          [thread_local_data EXCEPT ![ChildCtx] = thread_local_data[c]]
    /\ dsh' = [dsh EXCEPT ![ChildCtx] = dsh[c]]
    /\ UNCHANGED << env_unit_test, env_cli, now, pc, call, handles, cache, last >>

\* dsh = DataStoreMySQL(): a caller that holds no session constructs one
\* itself
New(c) ==
    /\ Idle(c)
    /\ dsh[c] = NoSession
    /\ CanConstruct(c)
    /\ heap' = Put(c, NewSid(c), DataStoreMySQL(now, env_cli))
    /\ dsh' = [dsh EXCEPT ![c] = NewSid(c)]
    /\ Done(c, [NoCall EXCEPT !.op = "DataStoreMySQL", !.ctx = c,
                              !.sid = NewSid(c), !.fresh = TRUE])
    /\ UNCHANGED << env_unit_test, env_cli, now, persistent_map,
                    thread_local_data, handles, cache, forked >>

(* ----- calls on the session a context holds ------------------------------ *)

\* a call of c on the session it holds starts
Start(c, op) ==
    [NoCall EXCEPT !.op = op, !.ctx = c, !.sid = dsh[c],
                   !.armed = Obj(c, dsh[c]).memcache_key # None]

\* a call that touches one session only completes, leaving it as s
Finish(c, l, s) ==
    /\ heap' = Put(c, l.sid, s)
    /\ Done(c, l)

\* a call reaches cursor.execute and waits for the driver, the session as s
Wait(c, l, a, s, at) ==
    /\ heap' = Put(c, l.sid, s)
    /\ pc' = [pc EXCEPT ![c] = at]
    /\ call' = [call EXCEPT ![c] = [l |-> l, arg |-> a]]
    /\ last' = NoCall

\* dsh.select_db(connection, db)
SelectDb(c, connection, db) ==
    /\ Holding(c)
    /\ Finish(c, Start(c, "select_db"),
              select_db(Obj(c, dsh[c]), connection, db))
    /\ UNCHANGED << env_unit_test, env_cli, now, persistent_map,
                    thread_local_data, dsh, handles, cache, forked >>

\* dsh.set_persistent(persistent)
SetPersistent(c, persistent) ==
    /\ Holding(c)
    /\ Finish(c, [Start(c, "set_persistent") EXCEPT
                     !.persistent = persistent],
              set_persistent(Obj(c, dsh[c]), persistent))
    /\ UNCHANGED << env_unit_test, env_cli, now, persistent_map,
                    thread_local_data, dsh, handles, cache, forked >>

\* dsh.memcache(key, ttl)
Memcache(c, key, ttl) ==
    /\ Holding(c)
    /\ Finish(c, Start(c, "memcache"), memcache(Obj(c, dsh[c]), key, ttl))
    /\ UNCHANGED << env_unit_test, env_cli, now, persistent_map,
                    thread_local_data, dsh, handles, cache, forked >>

\* dsh.connect()
Connect(c) ==
    LET s == Obj(c, dsh[c])
        r == connect(s, now, NewHandle)
    IN
    /\ Holding(c)
    /\ CanConnect(s)
    /\ Finish(c, [Start(c, "connect") EXCEPT !.exc = r.exc,
                     !.connected = TRUE, !.opened = r.opened,
                     !.pinged = r.pinged],
              r.sess)
    /\ handles' = Opened(r)
    /\ UNCHANGED << env_unit_test, env_cli, now, persistent_map,
                    thread_local_data, dsh, cache, forked >>

\* dsh.close()
Close(c) ==
    LET s == Obj(c, dsh[c]) IN
    /\ Holding(c)
    /\ Finish(c, [Start(c, "close") EXCEPT
                     !.closed_cursor = s.cursor # NoHandle,
                     !.closed_handle = close_released(s) # NoHandle,
                     !.detached = s.memcache /\ ~close(s).memcache],
              close(s))
    /\ handles' = Released(s)
    /\ UNCHANGED << env_unit_test, env_cli, now, persistent_map,
                    thread_local_data, dsh, cache, forked >>

commit_ignores_unit_test(s, ignore_exceptions, unit_test, t) ==
    IF s.mysql = NoHandle
    THEN [sess |-> s,
          exc |-> IF ignore_exceptions THEN None ELSE "DataStoreException",
          opened |-> FALSE, pinged |-> FALSE,
          connected |-> FALSE, executed |-> FALSE]
    ELSE connect(s, t, NoHandle) @@ [connected |-> TRUE, executed |-> TRUE]

\* DataStoreMySQL.commit: the result of the call, shaped like connect's
commit(s, ignore_exceptions, unit_test, t) ==
    LET ret(x, e, o, p) == [sess |-> x, exc |-> e, opened |-> o, pinged |-> p,
                            connected |-> FALSE, executed |-> FALSE]
    IN IF s.mysql = NoHandle
       THEN ret(s, IF ignore_exceptions THEN None ELSE "DataStoreException",
                FALSE, FALSE)
       ELSE IF unit_test
            THEN ret(s, None, FALSE, FALSE)
            ELSE connect(s, t, NoHandle) @@
                 [connected |-> TRUE, executed |-> TRUE]

rollback_silent(s, ignore_exceptions, unit_test, t) ==
    IF s.mysql = NoHandle
    THEN [sess |-> s, exc |-> None, opened |-> FALSE, pinged |-> FALSE,
          connected |-> FALSE, executed |-> FALSE]
    ELSE connect(s, t, NoHandle) @@ [connected |-> TRUE, executed |-> TRUE]

\* DataStoreMySQL.rollback
rollback(s, ignore_exceptions, unit_test, t) ==
    LET ret(x, e, o, p) == [sess |-> x, exc |-> e, opened |-> o, pinged |-> p,
                            connected |-> FALSE, executed |-> FALSE]
    IN IF s.mysql = NoHandle
       THEN ret(s, IF ignore_exceptions THEN None ELSE "DataStoreException",
                FALSE, FALSE)
       ELSE connect(s, t, NoHandle) @@
            [connected |-> TRUE, executed |-> TRUE]

\* dsh.commit(ignore_exceptions)
Commit(c, ignore_exceptions) ==
    LET s == Obj(c, dsh[c])
        r == commit(s, ignore_exceptions, env_unit_test, now)
    IN
    /\ Holding(c)
    /\ (s.mysql # NoHandle /\ ~env_unit_test) => CanConnect(s)
    /\ Finish(c, [Start(c, "commit") EXCEPT !.exc = r.exc,
                     !.connected = r.connected, !.opened = r.opened,
                     !.pinged = r.pinged, !.executed = r.executed],
              r.sess)
    /\ UNCHANGED << env_unit_test, env_cli, now, persistent_map,
                    thread_local_data, dsh, handles, cache, forked >>

\* dsh.rollback(ignore_exceptions)
Rollback(c, ignore_exceptions) ==
    LET s == Obj(c, dsh[c])
        r == rollback(s, ignore_exceptions, env_unit_test, now)
    IN
    /\ Holding(c)
    /\ s.mysql # NoHandle => CanConnect(s)
    /\ Finish(c, [Start(c, "rollback") EXCEPT !.exc = r.exc,
                     !.connected = r.connected, !.opened = r.opened,
                     !.pinged = r.pinged, !.executed = r.executed],
              r.sess)
    /\ UNCHANGED << env_unit_test, env_cli, now, persistent_map,
                    thread_local_data, dsh, handles, cache, forked >>

(* ----- autonomous transactions -------------------------------------------- *)

\* autonomous_tx_start(connection, db): the session it returns
autonomous_tx_start(t, cli, connection, db) ==
    select_db(set_persistent(DataStoreMySQL(t, cli), FALSE), connection, db)

\* autonomous_tx_stop_commit / autonomous_tx_stop_rollback: r is what
\* dsh.commit() or dsh.rollback() did up to the call on the physical handle,
\* outcome what the driver answers to that call.  dsh.close() is the next
\* statement, reached only when the first one returns.
autonomous_tx_stop(r, outcome) ==
    LET exc == IF r.exc # None THEN r.exc
               ELSE IF r.executed /\ outcome # DriverOk THEN outcome[1]
               ELSE None
    IN [ sess     |-> IF exc = None THEN close(r.sess) ELSE r.sess,
         exc      |-> exc,
         released |-> IF exc = None THEN close_released(r.sess) ELSE NoHandle ]

\* dsh = autonomous_tx_start(connection, db)
AutonomousTxStart(c, connection, db) ==
    /\ Idle(c)
    /\ CanConstruct(c)
    /\ heap' = Put(c, NewSid(c),
                   autonomous_tx_start(now, env_cli, connection, db))
    /\ dsh' = [dsh EXCEPT ![c] = NewSid(c)]
    /\ Done(c, [NoCall EXCEPT !.op = "autonomous_tx_start", !.ctx = c,
                              !.sid = NewSid(c), !.fresh = TRUE])
    /\ UNCHANGED << env_unit_test, env_cli, now, persistent_map,
                    thread_local_data, handles, cache, forked >>

\* a stop call on the session c holds: assert_is_dsh passes, r and outcome
\* as for autonomous_tx_stop
AutonomousTxStop(c, op, r, outcome) ==
    LET s == Obj(c, dsh[c])
        x == autonomous_tx_stop(r, outcome)
    IN
    /\ Holding(c)
    /\ ~r.executed => outcome = DriverOk
    /\ Finish(c, [Start(c, op) EXCEPT !.exc = x.exc,
                     !.connected = r.connected, !.pinged = r.pinged,
                     !.executed = r.executed,
                     !.closed_cursor = x.exc = None /\ s.cursor # NoHandle,
                     !.closed_handle = x.released # NoHandle],
              x.sess)
    /\ handles' = IF x.released # NoHandle
                  THEN [handles EXCEPT ![x.released] = "closed"]
                  ELSE handles
    /\ UNCHANGED << env_unit_test, env_cli, now, persistent_map,
                    thread_local_data, dsh, cache, forked >>

\* autonomous_tx_stop_commit(dsh, ignore_exceptions)
AutonomousTxStopCommit(c, ignore_exceptions, outcome) ==
    AutonomousTxStop(c, "autonomous_tx_stop_commit",
        commit(Obj(c, dsh[c]), ignore_exceptions, env_unit_test, now), outcome)

\* autonomous_tx_stop_rollback(dsh, ignore_exceptions)
AutonomousTxStopRollback(c, ignore_exceptions, outcome) ==
    AutonomousTxStop(c, "autonomous_tx_stop_rollback",
        rollback(Obj(c, dsh[c]), ignore_exceptions, env_unit_test, now),
        outcome)

(* ----- the query executor ------------------------------------------------- *)

\* query(), lines 503-515: the cache lookup, connect() and the cursor
QueryBegin(c, sql) ==
    LET s      == Obj(c, dsh[c])
        l      == [Start(c, "query") EXCEPT
                      !.consulted = memcache_active(s, env_unit_test)]
        sa     == memcache_attach(s, env_unit_test)
        cached == memcache_retrieve(s, env_unit_test, cache)
        r      == connect(sa, now, NewHandle)
        lc     == [l EXCEPT !.connected = TRUE, !.opened = r.opened,
                            !.pinged = r.pinged, !.exc = r.exc]
    IN
    /\ Holding(c)
    /\ IF cached # NoResult
       THEN /\ Finish(c, [l EXCEPT !.result = cached], reset_memcache(sa))
            /\ UNCHANGED handles
       ELSE /\ CanConnect(sa)
            /\ handles' = Opened(r)
            /\ IF r.exc # None
               THEN Finish(c, lc, r.sess)
               ELSE Wait(c, lc, [NoArg EXCEPT !.sql = sql],
                         get_cursor(r.sess), "query_exec")
    /\ UNCHANGED << env_unit_test, env_cli, now, persistent_map,
                    thread_local_data, dsh, cache, forked >>

\* query(), lines 517-556: the driver answers cursor.execute
QueryEnd(c, outcome, results) ==
    LET l == [call[c].l EXCEPT !.executed = TRUE]
        s == Obj(c, l.sid)
    IN
    /\ Live(c)
    /\ pc[c] = "query_exec"
    /\ IF outcome # DriverOk
       THEN /\ Done(c, [l EXCEPT !.exc = query_error(outcome)])
            /\ UNCHANGED << heap, cache >>
       ELSE IF is_select(call[c].arg.sql)
       THEN /\ cache' = memcache_store(s, env_unit_test, cache, results)
            /\ Finish(c, [l EXCEPT !.result = results,
                             !.stored = memcache_active(s, env_unit_test)],
                      reset_memcache(close_cursor(
                          memcache_attach(s, env_unit_test))))
       ELSE /\ Finish(c, [l EXCEPT !.result = WriteResult],
                      reset_memcache(close_cursor(s)))
            /\ UNCHANGED cache
    /\ UNCHANGED << env_unit_test, env_cli, now, persistent_map,
                    thread_local_data, dsh, handles, forked >>

\* create(), lines 341-360, called with the fields data
CreateBegin(c, data) ==
    LET s  == Obj(c, dsh[c])
        l  == Start(c, "create")
        r  == connect(s, now, NewHandle)
        lc == [l EXCEPT !.connected = TRUE, !.opened = r.opened,
                        !.pinged = r.pinged, !.exc = r.exc]
    IN
    /\ Holding(c)
    /\ IF Len(data) = 0
       THEN /\ Finish(c, l, s)
            /\ UNCHANGED handles
       ELSE /\ CanConnect(s)
            /\ handles' = Opened(r)
            /\ IF r.exc # None
               THEN Finish(c, lc, r.sess)
               ELSE Wait(c, lc, [NoArg EXCEPT !.sql = create_statement(data)],
                         get_cursor(r.sess), "create_exec")
    /\ UNCHANGED << env_unit_test, env_cli, now, persistent_map,
                    thread_local_data, dsh, cache, forked >>

\* create(), lines 362-392
CreateEnd(c, outcome) ==
    LET l == [call[c].l EXCEPT !.executed = TRUE]
        s == Obj(c, l.sid)
    IN
    /\ Live(c)
    /\ pc[c] = "create_exec"
    /\ IF outcome # DriverOk
       THEN /\ Done(c, [l EXCEPT !.exc = create_error(outcome)])
            /\ UNCHANGED heap
       ELSE Finish(c, l, close_cursor(s))
    /\ UNCHANGED << env_unit_test, env_cli, now, persistent_map,
                    thread_local_data, dsh, handles, cache, forked >>

\* delete(), lines 396-405
DeleteBegin(c) ==
    LET s  == Obj(c, dsh[c])
        r  == connect(s, now, NewHandle)
        lc == [Start(c, "delete") EXCEPT !.connected = TRUE,
                  !.opened = r.opened, !.pinged = r.pinged, !.exc = r.exc]
    IN
    /\ Holding(c)
    /\ CanConnect(s)
    /\ handles' = Opened(r)
    /\ IF r.exc # None
       THEN Finish(c, lc, r.sess)
       ELSE Wait(c, lc, NoArg, get_cursor(r.sess), "delete_exec")
    /\ UNCHANGED << env_unit_test, env_cli, now, persistent_map,
                    thread_local_data, dsh, cache, forked >>

\* delete(), lines 407-416: no except clause, a driver error propagates
DeleteEnd(c, outcome) ==
    LET l == [call[c].l EXCEPT !.executed = TRUE]
        s == Obj(c, l.sid)
    IN
    /\ Live(c)
    /\ pc[c] = "delete_exec"
    /\ IF outcome # DriverOk
       THEN /\ Done(c, [l EXCEPT !.exc = outcome[1]])
            /\ UNCHANGED << heap, cache >>
       ELSE LET r == delete_finish(s, env_unit_test, cache) IN
            /\ cache' = r.cache
            /\ Finish(c, [l EXCEPT !.result = WriteResult,
                             !.purged = r.purged],
                      r.sess)
    /\ UNCHANGED << env_unit_test, env_cli, now, persistent_map,
                    thread_local_data, dsh, handles, forked >>

(* ----- the environment ---------------------------------------------------- *)

\* time passes
Tick(d) ==
    /\ now + d <= MaxNow
    /\ now' = now + d
    /\ UNCHANGED << env_unit_test, env_cli, heap, persistent_map,
                    thread_local_data, dsh, pc, call, handles, cache, forked, last >>

\* memcached drops an entry (its ttl ran out, or it was evicted)
CacheExpire(k) ==
    /\ cache[k] # NoResult
    /\ cache' = [cache EXCEPT ![k] = NoResult]
    /\ last' = NoCall
    /\ UNCHANGED << env_unit_test, env_cli, now, heap, persistent_map,
                    thread_local_data, dsh, pc, call, handles, forked >>

(* ----- specifications ----------------------------------------------------- *)

MainCtx == 1

\* The life of a session: one context obtains a handle for 'local' and
\* selects databases, connects, runs statements, commits, rolls back, closes.
Next ==
    \/ \E db \in DbNames, p \in BOOLEAN :
          GetHandleBegin(MainCtx, "local", db, p)
    \/ GetHandleInit(MainCtx)
    \/ GetHandleLookup(MainCtx)
    \/ GetHandleCreate(MainCtx)
    \/ GetHandleRead(MainCtx)
    \/ \E n \in ConnNames, db \in DbNames : SelectDb(MainCtx, n, db)
    \/ \E p \in BOOLEAN : SetPersistent(MainCtx, p)
    \/ Connect(MainCtx)
    \/ Close(MainCtx)
    \/ \E i \in BOOLEAN : Commit(MainCtx, i)
    \/ \E i \in BOOLEAN : Rollback(MainCtx, i)
    \/ \E q \in SqlKinds : QueryBegin(MainCtx, q)
    \/ \E o \in DriverOutcomes, res \in ResultSets : QueryEnd(MainCtx, o, res)
    \/ \E d \in TickSteps : Tick(d)

Spec == Init /\ [][Next]_vars

\* the data of a create call that sets one column
OneField == << [key |-> <<"a">>, value |-> <<"v">>] >>

\* The cache directive: one context obtains a handle, arms directives and
\* runs query, create and delete through the cache.
NextCache ==
    \/ \E p \in BOOLEAN : GetHandleBegin(MainCtx, "local", "db1", p)
    \/ GetHandleInit(MainCtx)
    \/ GetHandleLookup(MainCtx)
    \/ GetHandleCreate(MainCtx)
    \/ GetHandleRead(MainCtx)
    \/ \E k \in Keys, ttl \in Ttls : Memcache(MainCtx, k, ttl)
    \/ Connect(MainCtx)
    \/ Close(MainCtx)
    \/ \E q \in SqlKinds : QueryBegin(MainCtx, q)
    \/ \E o \in DriverOutcomes, res \in ResultSets : QueryEnd(MainCtx, o, res)
    \/ \E data \in {<<>>, OneField} : CreateBegin(MainCtx, data)
    \/ \E o \in DriverOutcomes : CreateEnd(MainCtx, o)
    \/ DeleteBegin(MainCtx)
    \/ \E o \in DriverOutcomes : DeleteEnd(MainCtx, o)
    \/ \E k \in Keys : CacheExpire(k)

SpecCache == Init /\ [][NextCache]_vars

\* The registry: two threads of one process ask for handles to 'local'
\* concurrently and run queries on what they get.
InitRegistry ==
    /\ env_unit_test = FALSE
    /\ env_cli = FALSE
    /\ now = 0
    /\ heap = [p \in Pids |-> <<>>]
    /\ persistent_map = [p \in Pids |-> [n \in ConnNames |-> EmptyEntry]]
    /\ thread_local_data = [c \in Ctxs |-> [n \in ConnNames |-> NoSession]]
    /\ dsh = [c \in Ctxs |-> NoSession]
    /\ pc = [c \in Ctxs |-> "idle"]
    /\ call = [c \in Ctxs |-> NoInFlight]
    /\ handles = [h \in Handles |-> "unused"]
    /\ cache = [k \in Keys |-> NoResult]
    /\ forked = FALSE
    /\ last = NoCall

Threads == {1, 2}

NextRegistry ==
    \/ \E c \in Threads, p \in BOOLEAN : GetHandleBegin(c, "local", "db1", p)
    \/ \E c \in Threads : GetHandleInit(c)
    \/ \E c \in Threads : GetHandleLookup(c)
    \/ \E c \in Threads : GetHandleCreate(c)
    \/ \E c \in Threads : GetHandleRead(c)
    \/ \E c \in Threads : QueryBegin(c, "select")
    \/ \E c \in Threads : QueryEnd(c, DriverOk, <<"row">>)

SpecRegistry == InitRegistry /\ [][NextRegistry]_vars

\* The fork: a process obtains handles and runs queries, forks a child, and
\* both go on asking for handles and running queries.
Forkers == {MainCtx, ChildCtx}

NextFork ==
    \/ \E c \in Forkers, p \in BOOLEAN : GetHandleBegin(c, "local", "db1", p)
    \/ \E c \in Forkers : GetHandleInit(c)
    \/ \E c \in Forkers : GetHandleLookup(c)
    \/ \E c \in Forkers : GetHandleCreate(c)
    \/ \E c \in Forkers : GetHandleRead(c)
    \/ Fork(MainCtx)
    \/ \E c \in Forkers : QueryBegin(c, "select")
    \/ \E c \in Forkers : QueryEnd(c, DriverOk, <<"row">>)
    \/ \E c \in Forkers : Close(c)

SpecFork == InitRegistry /\ [][NextFork]_vars

\* Sessions the caller constructs itself, in CLI mode or not: it selects
\* (or leaves unset) connection and database, connects and closes.
InitDirect ==
    /\ env_unit_test = FALSE
    /\ env_cli \in BOOLEAN
    /\ now = 0
    /\ heap = [p \in Pids |-> <<>>]
    /\ persistent_map = [p \in Pids |-> [n \in ConnNames |-> EmptyEntry]]
    /\ thread_local_data = [c \in Ctxs |-> [n \in ConnNames |-> NoSession]]
    /\ dsh = [c \in Ctxs |-> NoSession]
    /\ pc = [c \in Ctxs |-> "idle"]
    /\ call = [c \in Ctxs |-> NoInFlight]
    /\ handles = [h \in Handles |-> "unused"]
    /\ cache = [k \in Keys |-> NoResult]
    /\ forked = FALSE
    /\ last = NoCall

NextDirect ==
    \/ New(MainCtx)
    \/ \E n \in ConnNames \cup {None}, db \in DbNames \cup {None} :
          SelectDb(MainCtx, n, db)
    \/ Connect(MainCtx)
    \/ Close(MainCtx)
    \/ \E d \in TickSteps : Tick(d)

SpecDirect == InitDirect /\ [][NextDirect]_vars

\* Inserts: one context obtains a handle and creates records from every
\* dict of fields.
NextCreate ==
    \/ \E p \in BOOLEAN : GetHandleBegin(MainCtx, "local", "db1", p)
    \/ GetHandleInit(MainCtx)
    \/ GetHandleLookup(MainCtx)
    \/ GetHandleCreate(MainCtx)
    \/ GetHandleRead(MainCtx)
    \/ \E data \in FieldMaps : CreateBegin(MainCtx, data)
    \/ CreateEnd(MainCtx, DriverOk)

SpecCreate == InitRegistry /\ [][NextCreate]_vars

\* CLI mode or not: one context obtains a handle, connects and closes.
NextCli ==
    \/ \E p \in BOOLEAN : GetHandleBegin(MainCtx, "local", "db1", p)
    \/ GetHandleInit(MainCtx)
    \/ GetHandleLookup(MainCtx)
    \/ GetHandleCreate(MainCtx)
    \/ GetHandleRead(MainCtx)
    \/ Connect(MainCtx)
    \/ \E q \in SqlKinds : QueryBegin(MainCtx, q)
    \/ \E res \in ResultSets : QueryEnd(MainCtx, DriverOk, res)
    \/ Close(MainCtx)

SpecCli == InitDirect /\ [][NextCli]_vars

\* what the driver may answer to commit() and rollback() on a connection
CommitOutcomes == {DriverOk, <<"OperationalError", 2013>>}

\* Autonomous transactions: one context starts them, runs statements on
\* them and stops them with a commit or a rollback.
NextAutonomous ==
    \/ AutonomousTxStart(MainCtx, "local", "db1")
    \/ \E q \in SqlKinds : QueryBegin(MainCtx, q)
    \/ \E o \in {DriverOk, <<"IntegrityError", 1062>>}, res \in ResultSets :
          QueryEnd(MainCtx, o, res)
    \/ \E i \in BOOLEAN, o \in CommitOutcomes :
          AutonomousTxStopCommit(MainCtx, i, o)
    \/ \E i \in BOOLEAN, o \in CommitOutcomes :
          AutonomousTxStopRollback(MainCtx, i, o)

SpecAutonomous == Init /\ [][NextAutonomous]_vars

(* ----- properties ---------------------------------------------------------- *)

\* the session the last call was made on, as it is now
LastObj == Obj(last.ctx, last.sid)

\* the sessions on which context c has a statement in progress
InProgress(c) ==
    IF pc[c] \in {"query_exec", "create_exec", "delete_exec"}
    THEN {call[c].l.sid}
    ELSE {}

\* a step in which a get_data_store_handle call of c for name n returns or
\* raises
GetHandleCompletes(c, n) ==
    \/ /\ \E db \in DbNames, p \in BOOLEAN : GetHandleBegin(c, n, db, p)
       /\ pc'[c] = "idle"
    \/ /\ pc[c] \in {"gh_lookup", "gh_read"}
       /\ call[c].arg.connection = n
       /\ pc'[c] = "idle"

\* C1: whenever select_db changes the connection name or the database name
\* of a session that holds a physical handle, the session holds no handle
\* afterwards (so that the next connect() opens one for the new target).
C1_SelectDbDropsHandle ==
    [][\A sid \in DOMAIN heap[ParentPid] :
          LET s  == heap[ParentPid][sid]
              s2 == heap'[ParentPid][sid]
          IN (/\ s.mysql # NoHandle
              /\ \/ s2.connection_name # s.connection_name
                 \/ s2.db_name # s.db_name)
             => s2.mysql = NoHandle]_vars

\* C2: two threads of a process never have a statement in progress on the
\* same session object at the same time.
C2_NoSessionInUseByTwoContexts ==
    \A c1 \in Threads, c2 \in Threads :
        c1 # c2 => InProgress(c1) \cap InProgress(c2) = {}

\* C3: once a context has a session bound for a connection name, the
\* binding never changes and every get_data_store_handle call of the
\* context for that name returns the bound session, whatever persistent
\* flag is passed.
C3_FirstRequestWins ==
    [][\A c \in Threads, n \in ConnNames :
          LET b == thread_local_data[c][n] IN
          b # NoSession =>
             /\ thread_local_data'[c][n] = b
             /\ GetHandleCompletes(c, n) =>
                   /\ dsh'[c] = b
                   /\ last'.sid = b
                   /\ last'.exc = None]_vars

\* C3 happens: a persistent request returned the non-persistent session the
\* context had bound before
C3_Witness ==
    /\ last.op = "get_data_store_handle"
    /\ last.bound # NoSession
    /\ last.sid = last.bound
    /\ last.persistent
    /\ ~LastObj.persistent

\* C4 as stated: a get_data_store_handle call with persistent = False
\* always returns a session constructed by that call.
C4_NonPersistentAlwaysFresh ==
    (/\ last.op = "get_data_store_handle"
     /\ last.exc = None
     /\ ~last.persistent)
    => last.fresh

\* C4 as amended: a call with persistent = False made by a context that has
\* no session bound for the name returns a session object constructed by
\* that call, non-persistent and bound in no other context; made by a
\* context that has a session bound for the name, it returns that session.
C4_NonPersistentFreshWhenUnbound ==
    [][\A c \in Threads, n \in ConnNames :
          (GetHandleCompletes(c, n) /\ ~last'.persistent) =>
             IF thread_local_data[c][n] = NoSession
             THEN /\ dsh'[c] \notin DOMAIN heap[ProcOf(c)]
                  /\ dsh'[c] \in DOMAIN heap'[ProcOf(c)]
                  /\ ~heap'[ProcOf(c)][dsh'[c]].persistent
                  /\ \A c2 \in Threads \ {c} :
                        thread_local_data'[c2][n] # dsh'[c]
             ELSE dsh'[c] = thread_local_data[c][n]]_vars

\* C4 happens: a second call with persistent = False returned the session
\* the first one had constructed
C4_Witness ==
    /\ last.op = "get_data_store_handle"
    /\ last.exc = None
    /\ ~last.persistent
    /\ ~last.fresh
    /\ last.bound = last.sid
    /\ ~LastObj.persistent

\* C5: when query raises out of the execution of its statement, the session
\* has no open cursor and no cache directive afterwards.
C5_QueryFailureReleases ==
    (/\ last.op = "query"
     /\ last.executed
     /\ last.exc # None)
    => /\ LastObj.cursor = NoHandle
       /\ LastObj.memcache_key = None
       /\ LastObj.memcache_ttl = NoTtl

\* C6: when a create, delete or query call made with a cache directive armed
\* has executed its statement (or returned the cached result) and returned,
\* the directive is cleared.
C6_DirectiveIsOneShot ==
    (/\ last.op \in {"create", "delete", "query"}
     /\ last.armed
     /\ last.exc = None
     /\ last.executed \/ last.consulted)
    => /\ LastObj.memcache_key = None
       /\ LastObj.memcache_ttl = NoTtl

\* a query call of c that does not come back with a cached result: it
\* reaches the driver, or connect() raises
QueryGoesToDatabase(c) == pc'[c] = "query_exec" \/ last'.exc # None

\* C7: when a query call made with a cache directive armed returns (from the
\* cache or from the database), the session's cache key and ttl are none;
\* and a query call that follows it on that session goes to the database
\* and leaves the cache as it is.
C7_QueryClearsDirective ==
    /\ [](/\ last.op = "query"
          /\ last.armed
          /\ last.exc = None
          => /\ LastObj.memcache_key = None
             /\ LastObj.memcache_ttl = NoTtl)
    /\ [][\A c \in Ctxs :
            /\ (/\ last.op = "query" /\ last.armed /\ last.exc = None
                /\ last.ctx = c /\ last.sid = dsh[c]
                /\ \E q \in SqlKinds : QueryBegin(c, q))
               => /\ QueryGoesToDatabase(c)
                  /\ cache' = cache
                  /\ pc'[c] = "query_exec" => ~call'[c].l.armed
            /\ (/\ pc[c] = "query_exec" /\ ~call[c].l.armed
                /\ pc'[c] = "idle")
               => /\ cache' = cache
                  /\ ~last'.stored]_vars

\* C7 happens: an armed query returned its result from the cache
C7_Witness ==
    /\ last.op = "query"
    /\ last.armed
    /\ last.consulted
    /\ ~last.executed
    /\ last.exc = None
    /\ last.result \in ResultSets

\* C8: not in unit-test mode, a query call made with a directive armed whose
\* key is cached returns the cached value at once: it does not call
\* connect() and runs no statement, and the session's handle, cursor,
\* requests and hits and the driver's connections are as before.
C8_CacheHitSkipsDatabase ==
    [][\A c \in Ctxs :
          LET s  == Obj(c, dsh[c])
              s2 == heap'[ProcOf(c)][dsh[c]]
          IN (/\ \E q \in SqlKinds : QueryBegin(c, q)
              /\ ~env_unit_test
              /\ s.memcache_key # None
              /\ cache[s.memcache_key] # NoResult)
             => /\ pc'[c] = "idle"
                /\ last'.exc = None
                /\ last'.result = cache[s.memcache_key]
                /\ ~last'.connected
                /\ ~last'.executed
                /\ s2.mysql = s.mysql
                /\ s2.cursor = s.cursor
                /\ s2.requests = s.requests
                /\ s2.hits = s.hits
                /\ handles' = handles]_vars

\* C8 happens: a session that holds no physical handle answered a query from
\* the cache
C8_Witness ==
    /\ ~env_unit_test
    /\ last.op = "query"
    /\ last.armed
    /\ last.result \in ResultSets
    /\ ~last.connected
    /\ LastObj.mysql = NoHandle

\* C9: also after a fork, no physical handle is usable from two processes:
\* a session that get_data_store_handle returns in the child never holds a
\* physical handle that a session of the parent holds.
C9_NoHandleInTwoProcesses ==
    (/\ last.op = "get_data_store_handle"
     /\ last.exc = None
     /\ last.ctx = ChildCtx
     /\ LastObj.mysql # NoHandle)
    => \A sid \in DOMAIN heap[ParentPid] :
          heap[ParentPid][sid].mysql # LastObj.mysql

\* C10: close() leaves the session without a cursor; a non-persistent
\* session is left without a handle (the one it held is closed) and without
\* cache client; a persistent session keeps its handle and its cache client,
\* and a later connect() on it opens no connection and keeps that handle.
C10_CloseReleasesByPersistence ==
    [][\A c \in Ctxs :
          LET s  == Obj(c, dsh[c])
              s2 == heap'[ProcOf(c)][dsh[c]]
          IN /\ Close(c) =>
                /\ s2.cursor = NoHandle
                /\ IF s.persistent
                   THEN /\ s2.mysql = s.mysql
                        /\ s2.memcache = s.memcache
                        /\ handles' = handles
                   ELSE /\ s2.mysql = NoHandle
                        /\ ~s2.memcache
                        /\ s.mysql # NoHandle => handles'[s.mysql] = "closed"
             /\ (/\ Holding(c)
                 /\ last.op = "close" /\ last.sid = dsh[c]
                 /\ s.persistent /\ s.mysql # NoHandle
                 /\ last'.connected)
                => /\ s2.mysql = s.mysql
                   /\ handles' = handles
                   /\ ~last'.opened
                   /\ last'.exc = None]_vars

\* C10 happens: close() on a non-persistent session closed its cursor and
\* its handle and dropped its cache client
C10_Witness ==
    /\ last.op = "close"
    /\ last.closed_cursor
    /\ last.closed_handle
    /\ last.detached
    /\ ~LastObj.persistent
    /\ LastObj.mysql = NoHandle

\* the sessions of the parent process that hold physical handle h
HoldersOf(h) == {sid \in DOMAIN heap[ParentPid] : heap[ParentPid][sid].mysql = h}

\* C11 as stated: once close() has discarded the physical handle of a
\* non-persistent session, the session does not hold a physical handle
\* again: not after the call that follows the close either.
C11_ClosedIsTerminal ==
    [][(/\ last.op = "close"
        /\ last.closed_handle)
       => heap'[ProcOf(last.ctx)][last.sid].mysql = NoHandle]_vars

\* C11 as amended: the physical handle that close() discarded is terminal,
\* the session is not.  No session holds a closed physical handle; a session
\* without a handle gets one only from a connect() that opens a physical
\* connection never used before, also when the session had closed one.
C11_ClosedHandleIsTerminal ==
    /\ [](\A h \in Handles : handles[h] = "closed" => HoldersOf(h) = {})
    /\ [][\A sid \in DOMAIN heap[ParentPid] :
            LET s  == heap[ParentPid][sid]
                s2 == heap'[ParentPid][sid]
            IN (s.mysql = NoHandle /\ s2.mysql # NoHandle)
               => /\ handles[s2.mysql] = "unused"
                  /\ handles'[s2.mysql] = "open"
                  /\ \/ last'.opened
                     \/ pc'[MainCtx] # "idle" /\ call'[MainCtx].l.opened]_vars

\* C11 happens: a non-persistent session whose handle close() had discarded
\* opened a new physical connection
C11_Witness ==
    /\ last.op = "connect"
    /\ last.opened
    /\ last.exc = None
    /\ ~LastObj.persistent
    /\ \E h \in Handles : handles[h] = "closed"
    /\ handles[LastObj.mysql] = "open"

C13_NoHandleCommitRollback ==
    [][\A c \in Ctxs, i \in BOOLEAN :
          (/\ Holding(c)
           /\ Obj(c, dsh[c]).mysql = NoHandle
           /\ Commit(c, i) \/ Rollback(c, i))
          => /\ last'.exc = (IF i THEN None ELSE "DataStoreException")
             /\ heap' = heap
             /\ handles' = handles
             /\ ~last'.connected
             /\ ~last'.opened
             /\ ~last'.executed]_vars

\* C13 happens: a rollback on a session without a handle raised
C13_Witness ==
    /\ last.op = "rollback"
    /\ last.exc = "DataStoreException"
    /\ ~last.connected
    /\ LastObj.mysql = NoHandle
    /\ LastObj.db_name # None

\* C14: connect() on a persistent session that holds a handle does one of
\* two things: when now - inactive_since >= ping_interval - 3 it pings the
\* handle, sets inactive_since to now and leaves hits as it is; otherwise it
\* adds one to hits, sends no ping and leaves inactive_since as it is.
\* Neither way does it open a physical connection or change the handle.
C14_ConnectPingsOrHits ==
    [][\A c \in Ctxs :
          LET s  == Obj(c, dsh[c])
              s2 == heap'[ProcOf(c)][dsh[c]]
          IN (/\ Connect(c)
              /\ s.persistent
              /\ s.mysql # NoHandle)
             => /\ last'.exc = None
                /\ ~last'.opened
                /\ handles' = handles
                /\ s2.mysql = s.mysql
                /\ IF now - s.inactive_since >= PingInterval - PingSlack
                   THEN /\ last'.pinged
                        /\ s2.inactive_since = now
                        /\ s2.hits = s.hits
                   ELSE /\ ~last'.pinged
                        /\ s2.inactive_since = s.inactive_since
                        /\ s2.hits = s.hits + 1]_vars

\* C14 happens: connect() pinged a handle that had been idle for exactly
\* ping_interval - 3 seconds
C14_Witness ==
    /\ last.op = "connect"
    /\ last.pinged
    /\ ~last.opened
    /\ LastObj.persistent
    /\ LastObj.mysql # NoHandle
    /\ LastObj.inactive_since = PingInterval - PingSlack
    /\ LastObj.hits = 0

\* C15: connect() on a session that holds no handle raises
\* DataStoreException when the connection name is unset, when the database
\* name is unset, or when the connection name is not configured; then no
\* connection is opened and the session still holds no handle.  Otherwise it
\* opens a physical connection, which the session holds, and sets
\* inactive_since to now.
C15_ConnectChecksTarget ==
    [][\A c \in Ctxs :
          LET s  == Obj(c, dsh[c])
              s2 == heap'[ProcOf(c)][dsh[c]]
          IN (/\ Connect(c)
              /\ s.mysql = NoHandle)
             => IF \/ s.connection_name = None
                   \/ s.db_name = None
                   \/ s.connection_name \notin connection_data
                THEN /\ last'.exc = "DataStoreException"
                     /\ ~last'.opened
                     /\ handles' = handles
                     /\ s2.mysql = NoHandle
                ELSE /\ last'.exc = None
                     /\ last'.opened
                     /\ s2.mysql # NoHandle
                     /\ handles[s2.mysql] = "unused"
                     /\ handles'[s2.mysql] = "open"
                     /\ s2.inactive_since = now]_vars

\* C15 happens: connect() raised on a session with a configured connection
\* name and no database name
C15_Witness ==
    /\ last.op = "connect"
    /\ last.exc = "DataStoreException"
    /\ LastObj.connection_name \in connection_data
    /\ LastObj.db_name = None
    /\ LastObj.mysql = NoHandle
    /\ \A h \in Handles : handles[h] = "unused"

\* the error the caller is to see for each driver error: by condition for
\* 1048, 1062, 1452 and 1271, DataStoreException for a programming error,
\* the driver's own error otherwise
MappedError ==
    [e \in DriverErrors |->
        CASE e[2] = 1048 -> "ColumnCannotBeNullException"
          [] e[2] = 1062 -> "DataStoreDuplicateKeyException"
          [] e[2] = 1452 -> "DataStoreForeignKeyException"
          [] e[2] = 1271 -> "IllegalMixOfCollationsException"
          [] e[1] = "ProgrammingError" -> "DataStoreException"
          [] OTHER -> e[1]]

\* C16 as stated: whatever driver error cursor.execute raises, query and
\* create both raise the error the mapping gives for it.
C16_SameErrorMapping ==
    [][\A c \in Ctxs, o \in DriverErrors :
          /\ (\E res \in ResultSets : QueryEnd(c, o, res))
             => last'.exc = MappedError[o]
          /\ CreateEnd(c, o) => last'.exc = MappedError[o]]_vars

\* C16 as amended: query raises the error the mapping gives; create does so
\* for integrity errors and programming errors only, and lets every other
\* driver error, the collation mismatch 1271 (an InternalError) included,
\* propagate unchanged.
C16_ErrorMappingByOperation ==
    [][\A c \in Ctxs, o \in DriverErrors :
          /\ (\E res \in ResultSets : QueryEnd(c, o, res))
             => /\ last'.exc = MappedError[o]
                /\ last'.op = "query"
          /\ CreateEnd(c, o)
             => /\ last'.op = "create"
                /\ last'.exc = IF o[1] \in {"IntegrityError", "ProgrammingError"}
                               THEN MappedError[o]
                               ELSE o[1]]_vars

\* C16 happens: a query failed on a collation mismatch
C16_Witness ==
    /\ last.op = "query"
    /\ last.executed
    /\ last.exc = "IllegalMixOfCollationsException"

Sentinel(value) ==
    \/ value[1] = "current_timestamp"
    \/ Len(value) = 1 /\ value[1] = "current_date"

\* C18: the statement create builds from a non-empty dict has one column
\* and one placeholder per field, in the order of the fields; the
\* placeholder of a field is its value when that is a timestamp/date
\* sentinel and a %s marker otherwise, and the values bound are those of the
\* fields with a marker, in order.  For an empty dict create returns None
\* and neither connects nor executes.
C18_CreateStatementShape ==
    /\ [](\A c \in Ctxs :
            pc[c] = "create_exec" =>
               LET st == call[c].arg.sql
                   marked == {i \in 1..Len(st.data) : ~Sentinel(st.data[i].value)}
               IN /\ Len(st.data) > 0
                  /\ Len(st.keys) = Len(st.data)
                  /\ Len(st.binds) = Len(st.keys)
                  /\ \A i \in 1..Len(st.data) :
                        /\ \A j \in 1..Len(st.keys[i]) :
                              /\ st.keys[i][j] # "_binary "
                              /\ \E k \in 1..Len(st.data[i].key) :
                                    st.data[i].key[k] = st.keys[i][j]
                        /\ IF Sentinel(st.data[i].value)
                           THEN st.binds[i] = st.data[i].value
                           ELSE st.binds[i][Len(st.binds[i])] = "%s"
                  /\ Len(st.vals) = Cardinality(marked)
                  /\ \A n \in 1..Len(st.vals) :
                        \E i \in marked :
                           /\ Cardinality({j \in marked : j <= i}) = n
                           /\ st.vals[n] = st.data[i].value)
    /\ [][\A c \in Ctxs :
            CreateBegin(c, <<>>)
            => /\ pc'[c] = "idle"
               /\ last'.exc = None
               /\ last'.result = NoResult
               /\ ~last'.connected
               /\ ~last'.executed
               /\ heap' = heap
               /\ handles' = handles]_vars

\* C18 happens: create handed the driver a statement of two columns, the
\* first with a marker and the second with the embedded sentinel
C18_Witness ==
    /\ pc[MainCtx] = "create_exec"
    /\ Len(call[MainCtx].arg.sql.data) = 2
    /\ call[MainCtx].arg.sql.keys[1] = <<"b">>
    /\ call[MainCtx].arg.sql.binds = << <<"_binary ", "%s">>,
                                        <<"current_timestamp", "(6)">> >>
    /\ Len(call[MainCtx].arg.sql.vals) = 1

\* C19: however get_data_store_handle calls with persistent = True of the
\* threads of a process interleave, every thread bound to a persistent
\* session is bound to the one stored in the map under the connection name
\* and the pid (so all of them to the same one), and no such call fails.
C19_OnePersistentSessionPerProcess ==
    /\ \A c \in Threads, n \in ConnNames :
          LET b == thread_local_data[c][n] IN
          (b # NoSession /\ Obj(c, b).persistent)
          => persistent_map[ParentPid][n].slots[ParentPid] = b
    /\ last.op = "get_data_store_handle" => last.exc = None

\* the session stored in the persistent map of the parent under name n
Stored(n) == persistent_map[ParentPid][n].slots[ParentPid]

\* C20 as stated: in every mode, CLI mode included, the session a persistent
\* request stored in the map is persistent, and close() does not close its
\* physical handle.
C20_StoredSessionIsPersistent ==
    \A n \in ConnNames :
        Stored(n) # NoSession
        => /\ heap[ParentPid][Stored(n)].persistent
           /\ (last.op = "close" /\ last.sid = Stored(n))
              => ~last.closed_handle

\* C20 as amended: the session a persistent request stored in the map is
\* persistent exactly when the process does not run in CLI mode.  Outside
\* CLI mode close() keeps its physical handle; in CLI mode the session is
\* constructed non-persistent and close() closes and discards its handle.
C20_StoredSessionPersistentUnlessCli ==
    /\ [](\A n \in ConnNames :
            Stored(n) # NoSession
            => heap[ParentPid][Stored(n)].persistent = ~env_cli)
    /\ [][\A c \in Ctxs :
            LET s  == Obj(c, dsh[c])
                s2 == heap'[ProcOf(c)][dsh[c]]
            IN (/\ Close(c)
                /\ \E n \in ConnNames : Stored(n) = dsh[c]
                /\ s.mysql # NoHandle)
               => IF env_cli
                  THEN /\ s2.mysql = NoHandle
                       /\ handles'[s.mysql] = "closed"
                       /\ last'.closed_handle
                  ELSE /\ s2.mysql = s.mysql
                       /\ handles' = handles
                       /\ ~last'.closed_handle]_vars

\* C20 happens: in CLI mode close() closed the handle of the session a
\* persistent request had stored in the map
C20_Witness ==
    /\ env_cli
    /\ last.op = "close"
    /\ last.closed_handle
    /\ last.sid = Stored("local")
    /\ LastObj.mysql = NoHandle

\* a step in which context c makes a call that runs connect()
CallsConnect(c) ==
    \/ Connect(c)
    \/ \E i \in BOOLEAN : Commit(c, i) /\ last'.connected
    \/ \E i \in BOOLEAN : Rollback(c, i) /\ last'.connected
    \/ \E q \in SqlKinds :
          /\ QueryBegin(c, q)
          /\ \/ pc'[c] = "idle" /\ last'.connected
             \/ pc'[c] = "query_exec" /\ call'[c].l.connected

C22_StopAlwaysReleases ==
    last.op \in {"autonomous_tx_stop_commit", "autonomous_tx_stop_rollback"}
    => /\ LastObj.mysql = NoHandle
       /\ LastObj.cursor = NoHandle

====
